---- MODULE Spec2Model ----
(***************************************************************************)
(* Model of wp-post-categorizer (src/index.ts): title normalisation,       *)
(* chunking, validation of the classifier response and the reconciliation  *)
(* loop of processXML with its two outputs.                                *)
(*                                                                         *)
(* Strings whose characters matter (titles) are sequences of one-character *)
(* strings; the typographic quotes are the tokens "LDQ" "RDQ" "LSQ" "RSQ". *)
(* JSON values are records [t |-> <type tag>, v |-> <payload>].            *)
(***************************************************************************)
EXTENDS Integers, Sequences, FiniteSets, TLC

\* ------------------------------------------------------------------ bounds
MaxTitleLen == 5
MaxArrLen == 4
MaxSize == 5

MaxPosts == 2
MaxEntries == 2
MaxCalls == 2
MaxFullPosts == 101
MaxHalfPosts == 60

\* ------------------------------------------------------- program constants
BatchSize == 50

VARIABLES
  posts,               \* the parsed <item> records (jsonObj.rss.channel.item)
  allowedCategories,   \* the allowed slugs of the run
  xmlOutputPath,       \* "" when the XML output was not selected
  csvOutputPath,       \* "" when the CSV output was not selected
  uncategorizedPosts,  \* the working set: indices into posts, in array order
  seenIds,             \* Set of resolved post ids
  batch,               \* the batch of the pass in progress
  response,            \* what generateText produced in the last call
  mapping,             \* what categorizeTitlesInBatch returned in the last call
  pc,                  \* position of the run
  calls,               \* number of classifier calls issued
  error,               \* the error caught by main, "" if none
  xmlFile,             \* the XML output file
  csvFile,             \* the CSV output file
  stubArg,             \* parameter of the classifier stub, 0 when unused
  fnPc,      \* position of the pure-function harness
  fnArg,     \* argument handed to the function under study
  fnSize,    \* the size argument of chunk
  fnOut,     \* result of the first application
  fnOut2     \* result of the second application (normalizeTitle only)

fnVars == <<fnPc, fnArg, fnSize, fnOut, fnOut2>>
runVars == <<posts, allowedCategories, xmlOutputPath, csvOutputPath,
             uncategorizedPosts, seenIds, batch, response, mapping, pc, calls,
             error, xmlFile, csvFile, stubArg>>
vars == <<runVars, fnVars>>

\* ============================================================== sequences
RECURSIVE SeqsUpTo(_, _)
SeqsUpTo(S, n) ==
  IF n = 0 THEN {<<>>}
  ELSE LET shorter == SeqsUpTo(S, n - 1)
       IN  shorter \cup {Append(q, x) : q \in {r \in shorter : Len(r) = n - 1}, x \in S}

Range(q) == {q[i] : i \in 1..Len(q)}

\* arr.slice(from, to) with 0-based, end-exclusive indices clamped to the array
Slice(arr, from, to) ==
  LET hi == IF to > Len(arr) THEN Len(arr) ELSE to
  IN  IF from >= hi THEN <<>> ELSE SubSeq(arr, from + 1, hi)

RECURSIVE Flatten(_)
Flatten(groups) ==
  IF groups = <<>> THEN <<>> ELSE Head(groups) \o Flatten(Tail(groups))

\* ========================================================= normalizeTitle
Whitespace == {" ", "\t"}
AmpEntity == <<"&", "a", "m", "p", ";">>

\* .replace(/&amp;/g, "&"): one left-to-right pass, the replacement text is
\* not rescanned
RECURSIVE ReplaceAmp(_)
ReplaceAmp(s) ==
  IF s = <<>> THEN <<>>
  ELSE IF Len(s) >= 5 /\ SubSeq(s, 1, 5) = AmpEntity
       THEN <<"&">> \o ReplaceAmp(SubSeq(s, 6, Len(s)))
       ELSE <<Head(s)>> \o ReplaceAmp(Tail(s))

\* .replace(/[LDQ RDQ]/g, '"').replace(/[LSQ RSQ]/g, "'")
StraightQuote(c) ==
  IF c \in {"LDQ", "RDQ"} THEN "\""
  ELSE IF c \in {"LSQ", "RSQ"} THEN "'" ELSE c

ReplaceQuotes(s) == [i \in 1..Len(s) |-> StraightQuote(s[i])]

\* .replace(/\s+/g, " ")
RECURSIVE CollapseWhitespace(_)
CollapseWhitespace(s) ==
  IF s = <<>> THEN <<>>
  ELSE IF Head(s) \in Whitespace
       THEN IF Len(s) >= 2 /\ s[2] \in Whitespace
            THEN CollapseWhitespace(Tail(s))
            ELSE <<" ">> \o CollapseWhitespace(Tail(s))
       ELSE <<Head(s)>> \o CollapseWhitespace(Tail(s))

\* .trim()
RECURSIVE TrimStart(_)
TrimStart(s) ==
  IF s # <<>> /\ Head(s) \in Whitespace THEN TrimStart(Tail(s)) ELSE s

RECURSIVE TrimEnd(_)
TrimEnd(s) ==
  IF s # <<>> /\ s[Len(s)] \in Whitespace
  THEN TrimEnd(SubSeq(s, 1, Len(s) - 1)) ELSE s

Trim(s) == TrimEnd(TrimStart(s))

\* .toLowerCase()
LowerChar(c) ==
  CASE c = "A" -> "a"
    [] c = "B" -> "b"
    [] c = "M" -> "m"
    [] c = "P" -> "p"
    [] c = "T" -> "t"
    [] OTHER -> c

ToLowerCase(s) == [i \in 1..Len(s) |-> LowerChar(s[i])]

normalizeTitle(title) ==
  ToLowerCase(Trim(CollapseWhitespace(ReplaceQuotes(ReplaceAmp(title)))))

\* ================================================================== chunk
\* chunkLoop with arr.slice(i, size) in place of arr.slice(i, i + size)
RECURSIVE chunkLoopSliceToSize(_, _, _, _)
chunkLoopSliceToSize(arr, size, i, result) ==
  IF i < Len(arr)
  THEN chunkLoopSliceToSize(arr, size, i + size, Append(result, Slice(arr, i, size)))
  ELSE result

RECURSIVE chunkLoop(_, _, _, _)
chunkLoop(arr, size, i, result) ==
  IF i < Len(arr)
  THEN chunkLoop(arr, size, i + size, Append(result, Slice(arr, i, i + size)))
  ELSE result

chunk(arr, size) == chunkLoop(arr, size, 0, <<>>)

\* ============================================================ JSON values
Undefined == [t |-> "undefined", v |-> <<>>]
JString(v) == [t |-> "string", v |-> v]
JNumber == [t |-> "number", v |-> <<>>]
JArray(v) == [t |-> "array", v |-> v]

\* an element of the response array; title and categories are Undefined
\* for everything that is not a JSON object
JElem(t) == [t |-> t, title |-> Undefined, categories |-> Undefined]
JEntry(title, categories) ==
  [t |-> "object", title |-> title, categories |-> categories]

\* JavaScript's typeof
TypeOf(x) == IF x.t \in {"null", "array", "object"} THEN "object" ELSE x.t

\* the text generateText resolves with: an optional Markdown fence around a
\* body; kind "reject" is a rejected promise (network or service failure)
TextResponse(fence, json) == [kind |-> "text", fence |-> fence, json |-> json]
Rejected == [kind |-> "reject", fence |-> "none", json |-> [t |-> "invalid", v |-> <<>>]]
NoResponse == [kind |-> "none", fence |-> "none", json |-> [t |-> "invalid", v |-> <<>>]]

\* ================================================ categorizeTitlesInBatch
\* text.replace(<leading fence+json or trailing fence>, "").trim(): a leading
\* fence followed by "json" and a trailing fence are removed; a leading fence
\* without "json" stays ("FENCE" stands for the three backquotes)
cleanedText(text) ==
  [leading |-> IF text.fence = "bare" THEN "FENCE" ELSE "", json |-> text.json]

\* JSON.parse: a SyntaxError for anything that is not one JSON value
ParseThrows(cleaned) == cleaned.leading # "" \/ cleaned.json.t = "invalid"

Ok(m) == [status |-> "ok", error |-> "", mapping |-> m]
Throw(e) == [status |-> "throw", error |-> e, mapping |-> <<>>]

\* filterCategories without the allowedCategories.includes(c) test
filterCategoriesAnyString(categories, allowed) ==
  LET keep(c) == c.t = "string"
      kept == SelectSeq(categories, keep)
  IN  [k \in 1..Len(kept) |-> kept[k].v]

filterCategories(categories, allowed) ==
  LET keep(c) == c.t = "string" /\ c.v \in Range(allowed)
      kept == SelectSeq(categories, keep)
  IN  [k \in 1..Len(kept) |-> kept[k].v]

\* the entry passes the guard of the for loop (it is not skipped by continue);
\* null has typeof "object", reading its title throws before this is decided
survives(entry) ==
  /\ TypeOf(entry) = "object"
  /\ entry.t # "null"
  /\ TypeOf(entry.title) = "string"
  /\ entry.categories.t = "array"

\* storesEntry without the filtered.length > 0 test
storesEntryAlways(entry, allowed) == survives(entry)

\* if (filtered.length > 0) validated[entry.title] = filtered
storesEntry(entry, allowed) ==
  survives(entry) /\ Len(filterCategories(entry.categories.v, allowed)) > 0

\* for (const entry of result) { ... }: the loop visits every element in
\* order, so it throws when some element is null; otherwise validated holds
\* one key per title of a stored entry, in the order of first insertion
\* (validated[title] = ... keeps the position of a key it overwrites), with
\* the categories of the last stored entry of that title
validateLoop(result, allowed) ==
  IF \E i \in 1..Len(result) : result[i].t = "null"
  THEN Throw("TypeError: reading 'title' of null")
  ELSE LET kept == SelectSeq(result, LAMBDA e : storesEntry(e, allowed))
           isFirst(k) == \A j \in 1..(k - 1) : kept[j].title.v # kept[k].title.v
           firsts == SelectSeq([k \in 1..Len(kept) |-> k], isFirst)
           lastOf(title) ==
             CHOOSE j \in 1..Len(kept) :
               /\ kept[j].title.v = title
               /\ \A l \in (j + 1)..Len(kept) : kept[l].title.v # title
       IN  Ok([n \in 1..Len(firsts) |->
                 [title |-> kept[firsts[n]].title.v,
                  cats |-> filterCategories(
                             kept[lastOf(kept[firsts[n]].title.v)].categories.v,
                             allowed)]])

categorizeTitlesInBatch(text, allowed) ==
  IF text.kind = "reject" THEN Throw("Rejected")
  ELSE LET cleaned == cleanedText(text) IN
       IF ParseThrows(cleaned) THEN Throw("SyntaxError")
       ELSE IF cleaned.json.t # "array" THEN Throw("AI response is not an array.")
       ELSE validateLoop(cleaned.json.v, allowed)

\* ============================================================= processXML
\* posts.filter((p) => typeof p.title === "string" && p["wp:post_type"] === "post")
Eligible(p) == TypeOf(p.title) = "string" /\ p.type = "post"

\* eligibleIndices without the wp:post_type test
eligibleIndicesAnyType(ps) ==
  LET keep(i) == TypeOf(ps[i].title) = "string"
  IN  SelectSeq([i \in 1..Len(ps) |-> i], keep)

eligibleIndices(ps) ==
  LET keep(i) == Eligible(ps[i])
  IN  SelectSeq([i \in 1..Len(ps) |-> i], keep)

\* uncategorizedPosts.filter((p) => !seenIds.has(p["wp:post_id"])).slice(0, 50)
selectBatch(ps, ws, seen) ==
  LET unseen(i) == ps[i].id \notin seen
  IN  Slice(SelectSeq(ws, unseen), 0, BatchSize)

titleList(ps, b) == [k \in 1..Len(b) |-> ps[b[k]].title.v]

\* slug.split("-") and word[0].toUpperCase() + word.slice(1), on the slugs
\* of the model
Split(slug) ==
  CASE slug = "senior-life" -> <<"senior", "life">>
    [] slug = "old-tag" -> <<"old", "tag">>
    [] OTHER -> <<slug>>

Capitalize(word) ==
  CASE word = "news" -> "News"
    [] word = "senior" -> "Senior"
    [] word = "life" -> "Life"
    [] word = "invented" -> "Invented"
    [] word = "old" -> "Old"
    [] word = "tag" -> "Tag"
    [] OTHER -> word

\* parts.join(sep): the parts with the separator between neighbours
RECURSIVE Join(_, _)
Join(parts, sep) ==
  IF Len(parts) <= 1 THEN parts
  ELSE <<Head(parts), sep>> \o Join(Tail(parts), sep)

displayLabel(slug) ==
  LET words == Split(slug)
  IN  Join([k \in 1..Len(words) |-> Capitalize(words[k])], " ")

categoryElements(cats) ==
  JArray([k \in 1..Len(cats) |->
            [domain |-> "category", nicename |-> cats[k], text |-> displayLabel(cats[k])]])

\* Object.entries(mapping).find(([mappedTitle]) =>
\*   normalizeTitle(mappedTitle) === normalized)?.[1]
\* normKeys[j] is normalizeTitle of the j-th key of the mapping
findMatch(m, normKeys, normalized) ==
  LET hits == {j \in 1..Len(m) : normKeys[j] = normalized}
  IN  IF hits = {} THEN [found |-> FALSE, cats |-> <<>>]
      ELSE [found |-> TRUE,
            cats |-> m[CHOOSE j \in hits : \A k \in hits : j <= k].cats]

\* for (let i = uncategorizedPosts.length - 1; i >= 0; i--) { ... }
\* st = [posts, ws, seen].  What a visit does depends only on the visited
\* post's title and on the mapping, and splice(i, 1) in a descending scan
\* leaves the entries still to visit in place: every entry of the working
\* set whose post matches is removed, and that post gets its categories.
\* matchLoop without seenIds.add(id)
matchLoopNoSeen(st, m, normKeys) ==
  LET hit(i) == findMatch(m, normKeys, normalizeTitle(st.posts[i].title.v))
      matchedPosts == {i \in Range(st.ws) : hit(i).found}
  IN  [posts |-> [i \in 1..Len(st.posts) |->
                    IF i \in matchedPosts
                    THEN [st.posts[i] EXCEPT !.category = categoryElements(hit(i).cats)]
                    ELSE st.posts[i]],
       ws |-> SelectSeq(st.ws, LAMBDA i : i \notin matchedPosts),
       seen |-> st.seen]

\* matchLoop without the assignment to post.category
matchLoopNoAssign(st, m, normKeys) ==
  LET hit(i) == findMatch(m, normKeys, normalizeTitle(st.posts[i].title.v))
      matchedPosts == {i \in Range(st.ws) : hit(i).found}
  IN  [posts |-> st.posts,
       ws |-> SelectSeq(st.ws, LAMBDA i : i \notin matchedPosts),
       seen |-> st.seen \cup {st.posts[i].id : i \in matchedPosts}]

\* matchLoop without uncategorizedPosts.splice(i, 1)
matchLoopNoSplice(st, m, normKeys) ==
  LET hit(i) == findMatch(m, normKeys, normalizeTitle(st.posts[i].title.v))
      matchedPosts == {i \in Range(st.ws) : hit(i).found}
  IN  [posts |-> [i \in 1..Len(st.posts) |->
                    IF i \in matchedPosts
                    THEN [st.posts[i] EXCEPT !.category = categoryElements(hit(i).cats)]
                    ELSE st.posts[i]],
       ws |-> st.ws,
       seen |-> st.seen \cup {st.posts[i].id : i \in matchedPosts}]

matchLoop(st, m, normKeys) ==
  LET hit(i) == findMatch(m, normKeys, normalizeTitle(st.posts[i].title.v))
      matchedPosts == {i \in Range(st.ws) : hit(i).found}
  IN  [posts |-> [i \in 1..Len(st.posts) |->
                    IF i \in matchedPosts
                    THEN [st.posts[i] EXCEPT !.category = categoryElements(hit(i).cats)]
                    ELSE st.posts[i]],
       ws |-> SelectSeq(st.ws, LAMBDA i : i \notin matchedPosts),
       seen |-> st.seen \cup {st.posts[i].id : i \in matchedPosts}]

\* mapping[p.title] on the object built by categorizeTitlesInBatch
hasKey(m, title) == \E j \in 1..Len(m) : m[j].title = title

\* for (const p of batch) { if (!mapping[p.title]) uncategorizedPosts.push(p) }
requeue(ps, ws, b, m) ==
  LET unanswered(i) == ~hasKey(m, ps[i].title.v)
  IN  ws \o SelectSeq(b, unanswered)

\* one pass after the classifier call returned mapping m
reconcile(ps, ws, seen, b, m) ==
  LET normKeys == [j \in 1..Len(m) |-> normalizeTitle(m[j].title)]
      st == matchLoop([posts |-> ps, ws |-> ws, seen |-> seen], m, normKeys)
  IN  [posts |-> st.posts, ws |-> requeue(ps, st.ws, b, m), seen |-> st.seen]

\* ---------------------------------------------------------------- outputs
\* title.replace(/"/g, '""')
RECURSIVE doubleQuotes(_)
doubleQuotes(title) ==
  IF title = <<>> THEN <<>>
  ELSE IF Head(title) = "\"" THEN <<"\"", "\"">> \o doubleQuotes(Tail(title))
       ELSE <<Head(title)>> \o doubleQuotes(Tail(title))

\* posts.filter((post) => Array.isArray(post.category))
categorizedPosts(ps) ==
  LET keep(i) == ps[i].category.t = "array"
  IN  SelectSeq([i \in 1..Len(ps) |-> i], keep)

\* title.replace is not a function when the title is not a string
csvThrows(ps) ==
  \E k \in 1..Len(categorizedPosts(ps)) :
     TypeOf(ps[categorizedPosts(ps)[k]].title) # "string"

csvRow(post) ==
  [id |-> post.id,
   title |-> doubleQuotes(post.title.v),
   categories |-> Join([k \in 1..Len(post.category.v) |-> post.category.v[k].nicename], "|")]

csvLines(ps) ==
  LET cp == categorizedPosts(ps)
  IN  [k \in 1..Len(cp) |-> csvRow(ps[cp[k]])]

NotWritten == [written |-> FALSE, content |-> <<>>]
Written(content) == [written |-> TRUE, content |-> content]

\* ================================================================ the run
\* the state main hands to processXML: the parsed items ps, the allowed
\* categories and the two output paths
InitRun(ps, allowed, xmlPath, csvPath, stub) ==
  /\ posts = ps
  /\ allowedCategories = allowed
  /\ xmlOutputPath = xmlPath
  /\ csvOutputPath = csvPath
  /\ uncategorizedPosts = <<>>
  /\ seenIds = {}
  /\ batch = <<>>
  /\ response = NoResponse
  /\ mapping = <<>>
  /\ pc = "start"
  /\ calls = 0
  /\ error = ""
  /\ xmlFile = NotWritten
  /\ csvFile = NotWritten
  /\ stubArg = stub

InitFn ==
  /\ fnPc = "idle"
  /\ fnArg = <<>>
  /\ fnSize = 1
  /\ fnOut = <<>>
  /\ fnOut2 = <<>>

\* if (!items) { log.error(...); return; }
NoItems ==
  /\ pc = "start"
  /\ posts = <<>>
  /\ pc' = "noitems"
  /\ UNCHANGED <<posts, allowedCategories, xmlOutputPath, csvOutputPath,
                 uncategorizedPosts, seenIds, batch, response, mapping, calls,
                 error, xmlFile, csvFile, stubArg>>
  /\ UNCHANGED fnVars

\* const uncategorizedPosts = posts.filter(...)
LoadPosts ==
  /\ pc = "start"
  /\ posts # <<>>
  /\ uncategorizedPosts' = eligibleIndices(posts)
  /\ pc' = "loop"
  /\ UNCHANGED <<posts, allowedCategories, xmlOutputPath, csvOutputPath,
                 seenIds, batch, response, mapping, calls, error, xmlFile,
                 csvFile, stubArg>>
  /\ UNCHANGED fnVars

\* the head of the while loop up to the call of categorizeTitlesInBatch;
\* batch, text and mapping are locals of one iteration
SelectBatchUpTo(limit) ==
  /\ pc = "loop"
  /\ Len(uncategorizedPosts) > 0
  /\ calls < limit
  /\ batch' = selectBatch(posts, uncategorizedPosts, seenIds)
  /\ response' = NoResponse
  /\ mapping' = <<>>
  /\ calls' = calls + 1
  /\ pc' = "await"
  /\ UNCHANGED <<posts, allowedCategories, xmlOutputPath, csvOutputPath,
                 uncategorizedPosts, seenIds, error, xmlFile, csvFile, stubArg>>
  /\ UNCHANGED fnVars

\* await generateText(...): the classifier produced r (a text, or a rejection)
ReceiveText(r) ==
  /\ pc = "await"
  /\ response' = r
  /\ pc' = "received"
  /\ UNCHANGED <<posts, allowedCategories, xmlOutputPath, csvOutputPath,
                 uncategorizedPosts, seenIds, batch, mapping, calls, error,
                 xmlFile, csvFile, stubArg>>
  /\ UNCHANGED fnVars

\* the rest of categorizeTitlesInBatch on the text r, then the rest of the
\* pass; an error leaves processXML and is caught by main
Continuation(r) ==
  LET res == categorizeTitlesInBatch(r, allowedCategories) IN
  IF res.status = "throw"
  THEN /\ pc' = "failed"
       /\ error' = res.error
       /\ UNCHANGED <<posts, uncategorizedPosts, seenIds, mapping>>
  ELSE LET st == reconcile(posts, uncategorizedPosts, seenIds, batch, res.mapping) IN
       /\ mapping' = res.mapping
       /\ posts' = st.posts
       /\ uncategorizedPosts' = st.ws
       /\ seenIds' = st.seen
       /\ pc' = "loop"
       /\ UNCHANGED error

\* the continuation as a step of its own, after ReceiveText
Reconcile ==
  /\ pc = "received"
  /\ Continuation(response)
  /\ UNCHANGED <<allowedCategories, xmlOutputPath, csvOutputPath, batch,
                 response, calls, xmlFile, csvFile, stubArg>>
  /\ UNCHANGED fnVars

\* one classifier call from the await to the end of the pass: generateText
\* produced r and the pass ran on it
Respond(r) ==
  /\ pc = "await"
  /\ response' = r
  /\ Continuation(r)
  /\ UNCHANGED <<allowedCategories, xmlOutputPath, csvOutputPath, batch,
                 calls, xmlFile, csvFile, stubArg>>
  /\ UNCHANGED fnVars

\* the code after the loop: the XML output, then the CSV output; the locals
\* of the last iteration are gone
WriteOutputs ==
  /\ pc = "loop"
  /\ Len(uncategorizedPosts) = 0
  /\ batch' = <<>>
  /\ response' = NoResponse
  /\ mapping' = <<>>
  /\ xmlFile' = IF xmlOutputPath # "" THEN Written(posts) ELSE xmlFile
  /\ IF csvOutputPath # "" /\ csvThrows(posts)
     THEN /\ pc' = "failed"
          /\ error' = "TypeError: title.replace is not a function"
          /\ UNCHANGED csvFile
     ELSE /\ csvFile' = IF csvOutputPath # "" THEN Written(csvLines(posts)) ELSE csvFile
          /\ pc' = "done"
          /\ UNCHANGED error
  /\ UNCHANGED <<posts, allowedCategories, xmlOutputPath, csvOutputPath,
                 uncategorizedPosts, seenIds, calls, stubArg>>
  /\ UNCHANGED fnVars

\* ------------------------------------------- the inputs of the main model
TitleUpperA == <<"A">>
TitleLowerA == <<"a">>
TitleB == <<"b">>

OldTag == [domain |-> "post_tag", nicename |-> "old-tag", text |-> <<"Old", " ", "Tag">>]
OldCategory == [domain |-> "category", nicename |-> "archive", text |-> <<"Archive">>]

\* the records an export holds: posts, with or without categories of their
\* own, and records of other types; one <category> child parses to an
\* object, several to an array
Items ==
  { [title |-> JString(TitleUpperA), type |-> "post", category |-> Undefined],
    [title |-> JString(TitleLowerA), type |-> "post",
     category |-> [t |-> "object", v |-> <<OldCategory>>]],
    [title |-> JString(TitleB), type |-> "page",
     category |-> JArray(<<OldCategory, OldTag>>)],
    [title |-> JNumber, type |-> "post", category |-> JArray(<<OldCategory, OldTag>>)],
    [title |-> JString(TitleB), type |-> "post", category |-> Undefined] }

WithIds(q) ==
  [i \in 1..Len(q) |->
     [id |-> i, title |-> q[i].title, type |-> q[i].type, category |-> q[i].category]]

AllowedChoices == {<<"news">>, <<"news", "senior-life">>}
\* both outputs selected
PathChoices == {<<"out.xml", "out.csv">>}

CatString(slug) == [t |-> "string", v |-> slug]
CatNumber == [t |-> "number", v |-> "7"]

NewsOnly == JArray(<<CatString("news")>>)

\* what a response array may hold: values that are not objects, entries with
\* a field of the wrong type or missing, entries whose categories are
\* allowed, invented or not strings
Elements ==
  { JElem("null"),
    JElem("number"),
    JEntry(JNumber, NewsOnly),
    JEntry(JString(TitleB), Undefined),
    JEntry(JString(TitleLowerA), NewsOnly),
    JEntry(JString(TitleUpperA),
           JArray(<<CatString("senior-life"), CatString("invented"), CatNumber>>)),
    JEntry(JString(TitleB), JArray(<<CatString("news"), CatString("senior-life")>>)) }

Responses ==
  {TextResponse("none", JArray(q)) : q \in SeqsUpTo(Elements, MaxEntries)}
    \cup { TextResponse("json", JArray(<<JEntry(JString(TitleB), NewsOnly)>>)),
           TextResponse("bare", JArray(<<JEntry(JString(TitleB), NewsOnly)>>)),
           TextResponse("none", [t |-> "invalid", v |-> <<>>]),
           TextResponse("none", [t |-> "object", v |-> <<>>]),
           Rejected }

Init ==
  /\ \E q \in SeqsUpTo(Items, MaxPosts), a \in AllowedChoices, p \in PathChoices :
       InitRun(WithIds(q), a, p[1], p[2], 0)
  /\ InitFn

SelectBatch == SelectBatchUpTo(MaxCalls)

Classify == \E r \in Responses : Respond(r)

Next == NoItems \/ LoadPosts \/ SelectBatch \/ Classify \/ WriteOutputs

Spec == Init /\ [][Next]_vars

\* ====================================================== classifier stubs
\* a run over n posts with distinct titles "T<i>", with or without a page
\* record in front of them
CeilDiv(a, b) == (a + b - 1) \div b

DigitChar(d) ==
  CASE d = 0 -> "0" [] d = 1 -> "1" [] d = 2 -> "2" [] d = 3 -> "3" [] d = 4 -> "4"
    [] d = 5 -> "5" [] d = 6 -> "6" [] d = 7 -> "7" [] d = 8 -> "8" [] OTHER -> "9"

RECURSIVE Digits(_)
Digits(n) == IF n < 10 THEN <<DigitChar(n)>> ELSE Append(Digits(n \div 10), DigitChar(n % 10))

GenTitle(i) == <<"T">> \o Digits(i)

GenPosts(n, withPage) ==
  WithIds((IF withPage
           THEN <<[title |-> JString(TitleB), type |-> "page", category |-> Undefined]>>
           ELSE <<>>)
          \o [i \in 1..n |->
                [title |-> JString(GenTitle(i)), type |-> "post", category |-> Undefined]])

InitStub(maxPosts) ==
  /\ \E n \in 0..maxPosts, withPage \in BOOLEAN, arg \in {0, 1} :
       InitRun(GenPosts(n, withPage), <<"news", "senior-life">>, "out.xml", "out.csv", arg)
  /\ InitFn

\* the stub that answers every submitted title with one allowed category;
\* stubArg = 0: the title is echoed as submitted, stubArg = 1: it is echoed
\* in lower case (equal to the submitted title after normalizeTitle)
fullAnswer(titles, arg) ==
  TextResponse("none",
    JArray([k \in 1..Len(titles) |->
              JEntry(JString(IF arg = 0 THEN titles[k] ELSE ToLowerCase(titles[k])),
                     NewsOnly)]))

\* the stub that answers every other title of the batch as submitted,
\* starting with the first (stubArg = 0) or the second (stubArg = 1)
halfAnswer(titles, arg) ==
  LET answered == SelectSeq([k \in 1..Len(titles) |-> k], LAMBDA k : (k - 1) % 2 = arg)
  IN  TextResponse("none",
        JArray([j \in 1..Len(answered) |->
                  JEntry(JString(titles[answered[j]]), NewsOnly)]))

FullCallLimit == CeilDiv(MaxFullPosts, BatchSize) + 1
HalfCallLimit == 2 * MaxHalfPosts + 2

ClassifyFull == Respond(fullAnswer(titleList(posts, batch), stubArg))
ClassifyHalf == ReceiveText(halfAnswer(titleList(posts, batch), stubArg))

InitFull == InitStub(MaxFullPosts)
NextFull ==
  NoItems \/ LoadPosts \/ SelectBatchUpTo(FullCallLimit) \/ ClassifyFull \/ WriteOutputs
SpecFull == InitFull /\ [][NextFull]_vars

InitHalf == InitStub(MaxHalfPosts)
NextHalf ==
  NoItems \/ LoadPosts \/ SelectBatchUpTo(HalfCallLimit) \/ ClassifyHalf \/ Reconcile
    \/ WriteOutputs
\* One thread of control and a stub that always answers: the run never stops
\* while a step is possible.  Here the call is two steps, ReceiveText then
\* Reconcile: Reconcile is enabled exactly when pc is "received" and is the
\* only step that leaves that position, so its weak fairness is stated on pc.
Continue == pc = "received" /\ pc' \in {"loop", "failed"}
SpecHalf ==
  /\ InitHalf
  /\ [][NextHalf]_vars
  /\ WF_vars(NoItems \/ LoadPosts \/ SelectBatchUpTo(HalfCallLimit) \/ ClassifyHalf
               \/ WriteOutputs)
  /\ WF_pc(Continue)

\* ========================================= harness for the pure functions
IdleRun == InitRun(<<>>, <<>>, "", "", 0)

NormAlphabet == {"&", "a", "m", "p", ";", "A", " ", "LDQ"}

InitNorm ==
  /\ IdleRun
  /\ fnPc = "normalize"
  /\ fnArg \in SeqsUpTo(NormAlphabet, MaxTitleLen)
  /\ fnSize = 1
  /\ fnOut = <<>>
  /\ fnOut2 = <<>>

Normalize ==
  /\ fnPc = "normalize"
  /\ fnOut' = normalizeTitle(fnArg)
  /\ fnPc' = "again"
  /\ UNCHANGED <<fnArg, fnSize, fnOut2>>
  /\ UNCHANGED runVars

NormalizeAgain ==
  /\ fnPc = "again"
  /\ fnOut2' = normalizeTitle(fnOut)
  /\ fnPc' = "done"
  /\ UNCHANGED <<fnArg, fnSize, fnOut>>
  /\ UNCHANGED runVars

NextNorm == Normalize \/ NormalizeAgain
SpecNorm == InitNorm /\ [][NextNorm]_vars

InitChunk ==
  /\ IdleRun
  /\ fnPc = "chunk"
  /\ fnArg \in SeqsUpTo({"x", "y", "z"}, MaxArrLen)
  /\ fnSize \in 1..MaxSize
  /\ fnOut = <<>>
  /\ fnOut2 = <<>>

Chunk ==
  /\ fnPc = "chunk"
  /\ fnOut' = chunk(fnArg, fnSize)
  /\ fnPc' = "done"
  /\ UNCHANGED <<fnArg, fnSize, fnOut2>>
  /\ UNCHANGED runVars

NextChunk == Chunk
SpecChunk == InitChunk /\ [][NextChunk]_vars

\* ================================================================= claims
EligibleCount == Len(eligibleIndices(posts))

Resolved(i) ==
  /\ posts[i].id \in seenIds
  /\ posts[i].category.t = "array"
  /\ Len(posts[i].category.v) > 0

\* C1: with a classifier that answers every submitted title by an entry
\* that matches it after normalizeTitle and carries an allowed category, the
\* loop needs exactly ceil(N/50) classifier calls for N eligible posts: it
\* never issues more, and after that many passes the working set is empty.
C1_FullMatchTermination ==
  /\ calls <= CeilDiv(EligibleCount, BatchSize)
  /\ (pc = "loop" /\ calls = CeilDiv(EligibleCount, BatchSize))
        => Len(uncategorizedPosts) = 0

C3_SeenNeverRequeued ==
  pc = "loop" =>
    \A k \in 1..Len(uncategorizedPosts) : posts[uncategorizedPosts[k]].id \notin seenIds

\* the elements of the array the cleaned text parses to, none otherwise
Malformed(r) ==
  r.kind = "text" /\ (ParseThrows(cleanedText(r)) \/ cleanedText(r).json.t # "array")

ResponseElements(r) ==
  IF r.kind = "text" /\ ~Malformed(r) THEN Range(r.json.v) ELSE {}

AllowedOf(e) ==
  {e.categories.v[k].v : k \in {n \in 1..Len(e.categories.v) :
      /\ e.categories.v[n].t = "string"
      /\ e.categories.v[n].v \in Range(allowedCategories)}}

\* e is a well-formed entry whose title matches post i after normalizeTitle
Names(e, i) ==
  survives(e) /\ normalizeTitle(e.title.v) = normalizeTitle(posts[i].title.v)

\* C4: every slug of the returned mapping is an allowed category, and so is
\* every category the loop attached to a post.
C4_CategoryContainment ==
  /\ \A j \in 1..Len(mapping) : Range(mapping[j].cats) \subseteq Range(allowedCategories)
  /\ \A i \in 1..Len(posts) :
        posts[i].id \in seenIds =>
          /\ posts[i].category.t = "array"
          /\ \A k \in 1..Len(posts[i].category.v) :
                posts[i].category.v[k].nicename \in Range(allowedCategories)

\* a post resolved from an entry that also carried a value that is not an
\* allowed slug
C4_Witness ==
  /\ pc = "loop"
  /\ \E i \in 1..Len(posts) :
        /\ posts[i].id \in seenIds
        /\ \E e \in ResponseElements(response) :
              /\ Names(e, i)
              /\ AllowedOf(e) # {}
              /\ Len(e.categories.v) > Cardinality(AllowedOf(e))

\* C5: a response that parses to an array never makes the call fail, and
\* every well-formed element of it with an allowed category is a key of the
\* returned mapping.
C5_PerElementTolerance ==
  (pc \in {"loop", "failed"} /\ response.kind = "text" /\ ~Malformed(response)) =>
    /\ pc = "loop"
    /\ \A e \in ResponseElements(response) :
          (survives(e) /\ AllowedOf(e) # {}) => hasKey(mapping, e.title.v)

\* C6: normalizeTitle applied to its own result returns that result.
C6_NormalizeIdempotent == fnPc = "done" => fnOut2 = fnOut

\* C7 as stated: a post of the working set named by an element whose
\* filtered category list is empty is not resolved by that response.
C7_EmptyAnswerNeverResolves ==
  [][(pc = "await" /\ pc' # "await") =>
       \A i \in Range(uncategorizedPosts) :
          ( /\ posts[i].id \notin seenIds
            /\ \E e \in ResponseElements(response') : Names(e, i) /\ AllowedOf(e) = {} )
          => /\ posts'[i].category = posts[i].category
             /\ posts[i].id \notin seenIds'
             /\ i \in Range(uncategorizedPosts')]_vars

\* C7: a post of the working set named by an element whose filtered category
\* list is empty, and by no element whose filtered list is not empty, is not
\* resolved by that response: its categories are unchanged, its identifier
\* is not added to the seen set and it stays in the working set.
C7_EmptyAnswerRequeues ==
  [][(pc = "await" /\ pc' # "await") =>
       \A i \in Range(uncategorizedPosts) :
          ( /\ posts[i].id \notin seenIds
            /\ \E e \in ResponseElements(response') : Names(e, i) /\ AllowedOf(e) = {}
            /\ \A e \in ResponseElements(response') : Names(e, i) => AllowedOf(e) = {} )
          => /\ posts'[i].category = posts[i].category
             /\ posts[i].id \notin seenIds'
             /\ i \in Range(uncategorizedPosts')]_vars

\* after a pass, a post named only by elements with an empty filtered list
\* is still unresolved in the working set
C7_Witness ==
  /\ pc = "loop"
  /\ \E i \in Range(uncategorizedPosts) :
        /\ posts[i].id \notin seenIds
        /\ posts[i].category.t # "array"
        /\ \E e \in ResponseElements(response) : Names(e, i) /\ AllowedOf(e) = {}
        /\ \A e \in ResponseElements(response) : Names(e, i) => AllowedOf(e) = {}

\* C8: the groups of chunk(arr, size), concatenated, are arr; no group is
\* longer than size and every group but the last has exactly size elements.
C8_ChunkComplete ==
  fnPc = "done" =>
    /\ Flatten(fnOut) = fnArg
    /\ \A k \in 1..Len(fnOut) :
          /\ Len(fnOut[k]) <= fnSize
          /\ k < Len(fnOut) => Len(fnOut[k]) = fnSize

\* several groups, the last one shorter than size
C8_Witness ==
  /\ fnPc = "done"
  /\ Len(fnOut) >= 2
  /\ Len(fnOut[Len(fnOut)]) < fnSize

\* C9: the CSV output has one row per record of type post that carries
\* categories, in order, and no other row; a row lists the record's slugs
\* joined by "|".
PostsWithCategories ==
  LET keep(i) ==
        /\ posts[i].type = "post"
        /\ posts[i].category.t \in {"array", "object"}
        /\ Len(posts[i].category.v) > 0
  IN  SelectSeq([i \in 1..Len(posts) |-> i], keep)

C9_TabularRows ==
  csvFile.written =>
    /\ Len(csvFile.content) = Len(PostsWithCategories)
    /\ \A k \in 1..Len(csvFile.content) :
          LET post == posts[PostsWithCategories[k]] IN
          /\ csvFile.content[k].id = post.id
          /\ csvFile.content[k].categories =
                Join([n \in 1..Len(post.category.v) |-> post.category.v[n].nicename], "|")

\* C10: the call fails exactly when the cleaned text does not parse or does
\* not parse to an array; after such a failure nothing is written and no
\* further call is made.
C10_MalformedResponse ==
  [][ /\ (pc = "await" /\ pc' # "await" /\ response'.kind = "text")
           => ((pc' = "failed") <=> Malformed(response'))
      /\ (pc = "await" /\ pc' = "failed")
           => (~xmlFile'.written /\ ~csvFile'.written)
      /\ pc = "failed"
           => (pc' = "failed" /\ calls' = calls /\ xmlFile' = xmlFile /\ csvFile' = csvFile)
    ]_vars

\* C11: the batch submitted to the classifier holds at most 50 posts, none
\* of them seen, in the order of the post collection, and no post twice.
C11_BatchComposition ==
  pc = "await" =>
    /\ Len(batch) <= BatchSize
    /\ \A k \in 1..Len(batch) : posts[batch[k]].id \notin seenIds
    /\ \A k \in 1..(Len(batch) - 1) : batch[k] < batch[k + 1]

Occurrences(q, x) == Cardinality({k \in 1..Len(q) : q[k] = x})

\* C12: at the end of a pass every post of the batch that received no match
\* is in the working set exactly once, no post is in the working set more
\* than once, and the working set holds no more entries than there are
\* eligible posts.
C12_RequeueWithoutDuplication ==
  pc = "loop" =>
    /\ \A k \in 1..Len(batch) :
          posts[batch[k]].id \notin seenIds
            => Occurrences(uncategorizedPosts, batch[k]) = 1
    /\ \A i \in 1..Len(posts) : Occurrences(uncategorizedPosts, i) <= 1
    /\ Len(uncategorizedPosts) <= EligibleCount

\* C13: once a post is resolved (its identifier is in the seen set), no
\* later pass changes its categories.
C13_AssignedOnce ==
  [][\A i \in 1..Len(posts) :
        posts[i].id \in seenIds => posts'[i].category = posts[i].category]_vars

\* C14: a record that is not of type post, or whose title is not a string,
\* is never put in the working set, never submitted to the classifier, and
\* no pass changes its categories.
C14_OnlyPostsEligible ==
  [][\A i \in 1..Len(posts) :
        ~Eligible(posts[i]) =>
          /\ i \notin Range(uncategorizedPosts')
          /\ i \notin Range(batch')
          /\ posts'[i].category = posts[i].category]_vars

\* a pass whose response named, with an allowed category, the title a page
\* shares with a post: the post was resolved, the page was left alone
C14_Witness ==
  /\ pc = "loop"
  /\ calls > 0
  /\ \E i, j \in 1..Len(posts) :
        /\ posts[i].type # "post"
        /\ TypeOf(posts[i].title) = "string"
        /\ Eligible(posts[j])
        /\ posts[j].title = posts[i].title
        /\ Resolved(j)
        /\ posts[i].id \notin seenIds
        /\ \E e \in ResponseElements(response) : Names(e, i) /\ AllowedOf(e) # {}

\* C15: when the loop has exited normally (the working set is empty), every
\* eligible post has a non-empty category list of allowed slugs and its
\* identifier is in the seen set; an output is written only in such a state.
C15_LoopPostcondition ==
  ((pc = "loop" /\ Len(uncategorizedPosts) = 0) \/ xmlFile.written \/ csvFile.written) =>
    /\ Len(uncategorizedPosts) = 0
    /\ \A i \in 1..Len(posts) :
          Eligible(posts[i]) =>
            /\ Resolved(i)
            /\ \A k \in 1..Len(posts[i].category.v) :
                  posts[i].category.v[k].nicename \in Range(allowedCategories)

\* a run that wrote its outputs after two passes, the first of which left
\* one of two eligible posts unmatched
C15_Witness ==
  /\ pc = "done"
  /\ xmlFile.written
  /\ csvFile.written
  /\ EligibleCount = 2
  /\ calls = 2

\* C16: a classifier call is issued with at least one post in the batch.
C16_NoEmptyCall == pc = "await" => Len(batch) > 0

\* C17: at the start and at the end of every pass each eligible post is in
\* the working set or is resolved (identifier in the seen set, categories
\* assigned), and a post leaves the working set only in a step that assigns
\* its categories and adds its identifier to the seen set.
C17_NoPostLost ==
  [][ /\ pc' \in {"loop", "await"} =>
           \A i \in 1..Len(posts') :
              Eligible(posts'[i]) =>
                \/ i \in Range(uncategorizedPosts')
                \/ /\ posts'[i].id \in seenIds'
                   /\ posts'[i].category.t = "array"
                   /\ Len(posts'[i].category.v) > 0
      /\ \A i \in Range(uncategorizedPosts) :
           i \notin Range(uncategorizedPosts') =>
             /\ pc = "await"
             /\ posts[i].id \in seenIds'
             /\ \E j \in 1..Len(mapping') :
                   /\ normalizeTitle(mapping'[j].title) = normalizeTitle(posts[i].title.v)
                   /\ posts'[i].category = categoryElements(mapping'[j].cats)
    ]_vars

\* a pass that resolved one of two eligible posts and kept the other in the
\* working set
C17_Witness ==
  /\ pc = "loop"
  /\ calls > 0
  /\ \E i, j \in 1..Len(posts) :
        /\ Eligible(posts[i])
        /\ Eligible(posts[j])
        /\ Resolved(i)
        /\ i \notin Range(uncategorizedPosts)
        /\ j \in Range(uncategorizedPosts)
        /\ posts[j].id \notin seenIds

====
